---------------------------- MODULE Spec2Model ----------------------------
(***************************************************************************)
(* Model of the RCS analysis script src/02_rcs_analysis.py: the main loop  *)
(* over (cohort, exposure) pairs, fit_weighted_rcs_model,                  *)
(* create_spline_terms, calculate_p_values, calculate_rcs_predictions, and *)
(* the aggregation / FDR-correction block that ends the script.            *)
(*                                                                         *)
(* Numbers.  Real quantities on the exposure axis (data values, knots,     *)
(* grid points) are integers in units of 1/Unit, which makes every         *)
(* percentile and every grid point of the model exact.  A float that may   *)
(* be NaN, and a table cell that may be missing, is a sequence of length   *)
(* at most one: << >> is NaN / missing, <<v>> is the value v.              *)
(***************************************************************************)
EXTENDS Integers, Sequences, FiniteSets, TLC

(***************************************************************************)
(* Program constants.                                                      *)
(***************************************************************************)
MinCohortRows == 100
MinValidRows == 50
MinCompleteRows == 50
GridSize == 100
DefaultKnots == 4
MainSplineTerms == 3

(***************************************************************************)
(* Bounds of the model.                                                    *)
(***************************************************************************)
\* number of exposure columns of the input table that carry data
NumExposureCols == 2
\* p-values are multiples of 1/PScale
PScale == 10

Unit == (GridSize - 1) * 1000 * 1000

NA == << >>
NaN == << >>
V(v) == <<v>>
IsNA(c) == Len(c) = 0

exposure_vars ==
    << "mean_fl_total", "mean_antho", "mean_nones", "mean_3_ols",
       "mean_ones", "mean_iso", "mean_ols" >>

covariates ==
    << "age", "gender", "race", "income_rate", "edu_level",
       "smoke", "drink", "cvd", "PA_GROUP", "kcal", "HEI2015_ALL" >>

Outcomes == << "MHO", "MUO" >>

SeqToSet(s) == { s[i] : i \in DOMAIN s }

(***************************************************************************)
(* The input table clean_data.csv.  A table is a sequence of blocks; a     *)
(* block stands for n consecutive identical rows.  The rows of a block     *)
(* carry NumExposureCols exposure cells, the outcome flag, the survey      *)
(* weight, one string-typed covariate (race) and one numeric covariate     *)
(* (age).  The other exposure and covariate columns are absent.            *)
(***************************************************************************)
Blk(n, x, y, w, race, age) ==
    [n |-> n, x |-> x, y |-> y, w |-> w, race |-> race, age |-> age]

\* a cohort with complete rows, distinct outer knots, the most frequent race
\* level not the first one, and a few rows missing each field in turn
ShapeRegular ==
    << Blk(40, <<V(0), V(0)>>, V(0), V(1), V("c"), V(3)),
       Blk(40, <<V(1), V(2)>>, V(1), V(2), V("b"), V(4)),
       Blk(35, <<V(3), V(4)>>, V(1), V(3), V("c"), V(5)),
       Blk(3,  <<NA,   V(1)>>, V(0), V(1), V("b"), V(3)),
       Blk(2,  <<V(2), NA>>,   NA,   V(1), V("b"), V(3)),
       Blk(2,  <<V(2), V(1)>>, V(1), NA,   V("b"), V(3)),
       Blk(3,  <<V(5), V(1)>>, V(1), V(1), NA,     V(3)),
       Blk(2,  <<V(5), V(1)>>, V(0), V(1), V("a"), NA) >>

\* fewer rows than the cohort minimum
ShapeSmall ==
    << Blk(30, <<V(0), V(0)>>, V(0), V(1), V("b"), V(3)),
       Blk(30, <<V(2), V(1)>>, V(1), V(1), V("c"), V(4)) >>

\* enough valid rows for the first exposure, too few complete ones; too few
\* valid rows for the second exposure
ShapeSparse ==
    << Blk(25, <<V(0), V(0)>>, V(0), V(1), V("b"), V(3)),
       Blk(20, <<V(2), V(1)>>, V(1), V(1), V("c"), V(4)),
       Blk(60, <<V(1), NA>>,   V(1), V(2), NA,     V(5)) >>

\* heavily tied second exposure, a numeric covariate that is the same
\* non-zero value in every row, equal weights, most frequent race level first
ShapeTied ==
    << Blk(40, <<V(0), V(1)>>, V(0), V(1), V("b"), V(4)),
       Blk(40, <<V(1), V(0)>>, V(1), V(1), V("c"), V(4)),
       Blk(30, <<V(4), V(1)>>, V(1), V(1), V("b"), V(4)) >>

CohortShapes == { ShapeRegular, ShapeSmall, ShapeSparse, ShapeTied }

\* the exposure cell of a block for the k-th exposure column: columns beyond
\* the ones the block spells out are present but empty
XCell(b, k) == IF k <= Len(b.x) THEN b.x[k] ELSE NA

RECURSIVE TagBlocks(_, _)
TagBlocks(blocks, ds) ==
    IF blocks = << >> THEN << >>
    ELSE << [n |-> Head(blocks).n,
             row |-> [dataset |-> V(ds),
                      x |-> [k \in 1..NumExposureCols |-> XCell(Head(blocks), k)],
                      outcome_binary |-> Head(blocks).y,
                      WTSAF6YR |-> Head(blocks).w,
                      race |-> Head(blocks).race,
                      age |-> Head(blocks).age]] >>
         \o TagBlocks(Tail(blocks), ds)

MakeTable(mho, muo) == TagBlocks(mho, "MHO") \o TagBlocks(muo, "MUO")

RECURSIVE TotalRows(_)
TotalRows(blocks) ==
    IF blocks = << >> THEN 0 ELSE Head(blocks).n + TotalRows(Tail(blocks))

\* the rows of a table, one per row
RECURSIVE Expand(_)
Expand(blocks) ==
    IF blocks = << >> THEN << >>
    ELSE [i \in 1..Head(blocks).n |-> Head(blocks).row] \o Expand(Tail(blocks))

\* data.columns
Columns(rows) ==
    { "dataset", "outcome_binary", "WTSAF6YR", "race", "age" }
        \cup { exposure_vars[k] : k \in 1..NumExposureCols }

ExposureIndex(col) == CHOOSE k \in 1..Len(exposure_vars) : exposure_vars[k] = col

\* data[col] of one row
Cell(row, col) ==
    CASE col = "dataset" -> row.dataset
      [] col = "outcome_binary" -> row.outcome_binary
      [] col = "WTSAF6YR" -> row.WTSAF6YR
      [] col = "race" -> row.race
      [] col = "age" -> row.age
      [] OTHER -> row.x[ExposureIndex(col)]

\* data[col].dtype == 'object'
IsObjectDtype(col) == col = "race"

(***************************************************************************)
(* Vectors and percentiles.                                                *)
(***************************************************************************)
\* x[mask]: the entries of x at the positions where mask holds, in order
IsKept(pair) == pair[2]

Compress(x, mask) ==
    LET kept == SelectSeq([i \in DOMAIN x |-> << x[i], mask[i] >>], IsKept)
    IN  [i \in DOMAIN kept |-> kept[i][1]]

CountTrue(mask) == Cardinality({ i \in DOMAIN mask : mask[i] })

LessThan(a, b) == a < b

\* np.percentile(x, p) with linear interpolation; p10 is p in tenths of a
\* percent, so that 27.5 is 275.  Exact for values that are multiples of 1000.
Percentile(x, p10) ==
    LET s == SortSeq(x, LessThan)
        pos == (Len(s) - 1) * p10
        lo == pos \div 1000
        frac == pos % 1000
    IN  IF frac = 0 THEN s[lo + 1]
        ELSE s[lo + 1] + frac * ((s[lo + 2] - s[lo + 1]) \div 1000)

\* the percentiles at which create_spline_terms puts its knots
KnotPercentiles(n_knots) ==
    CASE n_knots = 4 -> << 50, 350, 650, 950 >>
      [] n_knots = 3 -> << 100, 500, 900 >>
      [] n_knots = 5 -> << 50, 275, 500, 725, 950 >>
      [] OTHER -> [i \in 1..n_knots |-> ((i - 1) * 1000) \div (n_knots - 1)]

\* the knots computed from x itself
KnotsOf(x, n_knots) ==
    [i \in 1..n_knots |-> Percentile(x, KnotPercentiles(n_knots)[i])]

(***************************************************************************)
(* A matrix is a sequence of columns.  A column whose entries the model    *)
(* follows carries them in vals.  The entries of a cubic spline column are *)
(* not followed, only whether they are numbers: with equal last two knots  *)
(* every entry divides by zero and is NaN (0 * inf, inf - inf or 0/0), and *)
(* otherwise every entry is finite and the column holds a zero in each row *)
(* whose x is at most the first knot.                                      *)
(***************************************************************************)
ValueColumn(name, vals) == [name |-> name, vals |-> vals, nan |-> FALSE]

CubicColumn(i, x, knots) ==
    [name |-> "cubic", vals |-> << >>, rows |-> Len(x),
     nan |-> (knots[Len(knots)] - knots[Len(knots) - 1] = 0)]

\* the number of rows of a column
NumRows(col) == IF col.name = "cubic" THEN col.rows ELSE Len(col.vals)

\* create_spline_terms with one column per knot
create_spline_terms_column_per_knot(x, n_knots) ==
    LET knots == KnotsOf(x, n_knots)
    IN  [X |-> [i \in 1..n_knots |->
                   IF i = 1 THEN ValueColumn("linear", x)
                   ELSE CubicColumn(i - 1, x, knots)],
         knots |-> knots]

\* create_spline_terms(x, n_knots): the basis X and the knots
create_spline_terms(x, n_knots) ==
    LET knots == KnotsOf(x, n_knots)
    IN  [X |-> [i \in 1..(n_knots - 1) |->
                   IF i = 1 THEN ValueColumn("linear", x)
                   ELSE CubicColumn(i - 1, x, knots)],
         knots |-> knots]

HasNaN(X) == \E i \in DOMAIN X : X[i].nan

\* np.ptp(col) == 0 and np.all(col != 0)
IsNonzeroConstant(col) ==
    /\ ~col.nan
    /\ col.vals # << >>
    /\ \A i \in DOMAIN col.vals : col.vals[i] = col.vals[1] /\ col.vals[i] # 0

\* sm.add_constant(X): has_constant='skip' returns X unchanged when X already
\* holds a non-zero constant column
add_constant(X, nrows) ==
    IF \E i \in DOMAIN X : IsNonzeroConstant(X[i]) THEN X
    ELSE << ValueColumn("const", [i \in 1..nrows |-> Unit]) >> \o X

(***************************************************************************)
(* Categorical covariates.                                                 *)
(***************************************************************************)
LevelOrder == << "a", "b", "c" >>
LevelRank(l) == CHOOSE k \in DOMAIN LevelOrder : LevelOrder[k] = l

CountOf(vals, l) == Cardinality({ i \in DOMAIN vals : vals[i] = l })

\* the categories present, in sorted order
SortedLevels(vals) ==
    LET present == { k \in DOMAIN LevelOrder : CountOf(vals, LevelOrder[k]) > 0 }
        rank(k) == Cardinality({ j \in present : j <= k })
    IN  [r \in 1..Cardinality(present) |->
            LevelOrder[CHOOSE k \in present : rank(k) = r]]

\* the levels that pd.get_dummies(..., drop_first=True) keeps a column for
DummyLevels(vals) == Tail(SortedLevels(vals))

\* the level that get_dummies(..., drop_first=True) gives no column
DroppedLevel(vals) == Head(SortedLevels(vals))

\* pd.Series(vals).mode()[0]: the most frequent level, the first in sorted
\* order among equally frequent ones
Mode(vals) ==
    LET lv == SortedLevels(vals)
    IN  lv[CHOOSE r \in DOMAIN lv :
              /\ \A q \in DOMAIN lv : CountOf(vals, lv[q]) <= CountOf(vals, lv[r])
              /\ \A q \in 1..(r - 1) : CountOf(vals, lv[q]) < CountOf(vals, lv[r])]

get_dummies(vals) ==
    [d \in 1..Len(DummyLevels(vals)) |->
        ValueColumn(DummyLevels(vals)[d],
                    [i \in DOMAIN vals |->
                        IF vals[i] = DummyLevels(vals)[d] THEN Unit ELSE 0])]

(***************************************************************************)
(* fit_weighted_rcs_model, first half: the row filter, the spline basis,   *)
(* the covariate columns and the design matrix (the code before the try).  *)
(***************************************************************************)
Listed(seq, cols) == SelectSeq(seq, LAMBDA c : c \in cols)

ColumnOf(rows, col) == [i \in DOMAIN rows |-> Cell(rows[i], col)]

\* mask = ~(isna(x) | isna(y) | isna(w)), and for each listed covariate that is
\* a column of the table, mask &= ~isna(data[cov])
RowMask(rows, x_var, y_var, covs, weights) ==
    [i \in DOMAIN rows |->
        /\ ~(\/ IsNA(Cell(rows[i], x_var))
             \/ IsNA(Cell(rows[i], y_var))
             \/ IsNA(Cell(rows[i], weights)))
        /\ \A c \in DOMAIN covs :
              covs[c] \in Columns(rows) => ~IsNA(Cell(rows[i], covs[c]))]

\* data[col].values[mask], the cells unwrapped
Clean(rows, col, mask) ==
    LET kept == Compress(ColumnOf(rows, col), mask)
    IN  [i \in DOMAIN kept |-> kept[i][1]]

InUnits(vals) == [i \in DOMAIN vals |-> vals[i] * Unit]

\* the design columns and the covariate_info entry of one covariate
CovariateColumns(rows, cov, mask) ==
    IF IsObjectDtype(cov)
    THEN get_dummies(Clean(rows, cov, mask))
    ELSE << ValueColumn(cov, InUnits(Clean(rows, cov, mask))) >>

CovariateInfo(rows, cov, mask) ==
    IF IsObjectDtype(cov)
    THEN [type |-> "categorical", name |-> cov,
          categories |-> DummyLevels(Clean(rows, cov, mask)),
          reference |-> << Mode(Clean(rows, cov, mask)) >>,
          median |-> << >>]
    ELSE [type |-> "continuous", name |-> cov,
          categories |-> << >>,
          reference |-> << >>,
          median |-> << Percentile(InUnits(Clean(rows, cov, mask)), 500) >>]

RECURSIVE Concat(_)
Concat(seqs) == IF seqs = << >> THEN << >> ELSE Head(seqs) \o Concat(Tail(seqs))

\* the locals of fit_weighted_rcs_model when it reaches its try block
FitLocals(rows, x_var, y_var, covs, weights) ==
    LET mask == RowMask(rows, x_var, y_var, covs, weights)
        used == Listed(covs, Columns(rows))
        x_clean == InUnits(Clean(rows, x_var, mask))
        sp == create_spline_terms(x_clean, DefaultKnots)
        X_full == sp.X \o Concat([c \in DOMAIN used |->
                                     CovariateColumns(rows, used[c], mask)])
    IN  [mask |-> mask,
         x_clean |-> x_clean,
         y_clean |-> Clean(rows, y_var, mask),
         w_clean |-> Clean(rows, weights, mask),
         X_spline |-> sp.X,
         knots |-> sp.knots,
         covariate_info |-> [c \in DOMAIN used |->
                                CovariateInfo(rows, used[c], mask)],
         X_with_const |-> add_constant(X_full, CountTrue(mask))]

\* the row count taken before the covariate loop narrows the mask
TooFewRowsBeforeCovariates(rows, x_var, y_var, covs, weights) ==
    CountTrue(RowMask(rows, x_var, y_var, << >>, weights)) < MinCompleteRows

\* len(x_clean) < 50: the five Nones
TooFewRows(rows, x_var, y_var, covs, weights) ==
    CountTrue(RowMask(rows, x_var, y_var, covs, weights)) < MinCompleteRows

(***************************************************************************)
(* fit_weighted_rcs_model, second half: the try block.  The GLM is the     *)
(* call the code makes; the fitted coefficients are statsmodels' answer,   *)
(* kept as the shape of the fitted linear predictor over the exposure.     *)
(***************************************************************************)
\* the arguments of sm.GLM(...) as the code passes them: no weights argument
GLMCall(y_clean, X_with_const, w_normalized) ==
    [endog |-> y_clean, exog |-> X_with_const, family |-> "Binomial",
     freq_weights |-> << >>]

\* w_clean / np.mean(w_clean), as the pair (w_clean, sum, count)
Normalized(w_clean) == [w |-> w_clean, n |-> Len(w_clean)]

\* GLM construction raises MissingDataError on a design with NaN entries
GLMRaises(call) == HasNaN(call.exog)

ColumnNames(X) == [i \in DOMAIN X |-> X[i].name]

\* the results object of a fit that succeeded
FitResults(call, shape) ==
    [n_params |-> Len(call.exog),
     exog_names |-> ColumnNames(call.exog),
     nobs |-> Len(call.endog),
     weights |-> call.freq_weights,
     shape |-> shape]

(***************************************************************************)
(* calculate_p_values.  A restriction matrix is the sequence of its rows,  *)
(* a row the set of the coefficient indices (from 0) it selects.  The Wald *)
(* tests are statsmodels' answer: a p-value, or << >> when the test raises.*)
(***************************************************************************)
RestrictionMatrix(indices, n_params) ==
    [i \in DOMAIN indices |->
        IF indices[i] < n_params THEN { indices[i] } ELSE { }]

\* SplineIndices that starts at the constant term
SplineIndicesFromZero(n_spline_terms) == [i \in 1..n_spline_terms |-> i - 1]

SplineIndices(n_spline_terms) == [i \in 1..n_spline_terms |-> i]

NonlinearIndices(n_spline_terms) == Tail(SplineIndices(n_spline_terms))

\* wald_overall, wald_nonlinear: what results.wald_test answers for the two
\* matrices, << >> when it raises
calculate_p_values(results, n_spline_terms, wald_overall, wald_nonlinear) ==
    IF wald_overall = << >> THEN << NaN, NaN >>
    ELSE IF n_spline_terms > 1 /\ Len(NonlinearIndices(n_spline_terms)) > 0
         THEN IF wald_nonlinear = << >> THEN << NaN, NaN >>
              ELSE << wald_overall, wald_nonlinear >>
         ELSE << wald_overall, NaN >>

\* the matrices calculate_p_values passes to results.wald_test, in call order
\* when no call raises
WaldCalls(results, n_spline_terms) ==
    << RestrictionMatrix(SplineIndices(n_spline_terms), results.n_params) >>
    \o (IF n_spline_terms > 1 /\ Len(NonlinearIndices(n_spline_terms)) > 0
        THEN << RestrictionMatrix(NonlinearIndices(n_spline_terms),
                                  results.n_params) >>
        ELSE << >>)

(***************************************************************************)
(* calculate_rcs_predictions, first half: the grid and its design matrix.  *)
(***************************************************************************)
\* np.linspace(lo, hi, GridSize)
linspace(lo, hi) ==
    [j \in 1..GridSize |-> lo + (j - 1) * ((hi - lo) \div (GridSize - 1))]

ZeroColumns(n, nrows) ==
    [c \in 1..n |-> ValueColumn("zeros", [i \in 1..nrows |-> 0])]

\* the design matrix brought to n_params columns: padded with zero columns or
\* cut after the first n_params
Reconcile(X, n_params, nrows) ==
    IF Len(X) < n_params THEN X \o ZeroColumns(n_params - Len(X), nrows)
    ELSE IF Len(X) > n_params THEN SubSeq(X, 1, n_params)
    ELSE X

\* the knots the grid's spline basis is built with: create_spline_terms is
\* called on the grid alone, the knots argument is not used
GridSplineTerms(x_pred, knots) == create_spline_terms(x_pred, DefaultKnots)

\* the locals of calculate_rcs_predictions when it reaches its try block
PredictionLocals(results, x_range, knots) ==
    LET x_pred == linspace(x_range[1], x_range[2])
        sp == GridSplineTerms(x_pred, knots)
        n_spline == Len(sp.X)
        n_covariates == results.n_params - n_spline - 1
        X_pred_full == IF n_covariates > 0
                       THEN sp.X \o ZeroColumns(n_covariates, Len(x_pred))
                       ELSE sp.X
    IN  [x_pred |-> x_pred,
         X_pred_spline |-> sp.X,
         spline_knots |-> sp.knots,
         n_params |-> results.n_params,
         X_pred_with_const |->
             Reconcile(add_constant(X_pred_full, Len(x_pred)),
                       results.n_params, Len(x_pred))]

(***************************************************************************)
(* calculate_rcs_predictions, second half: the try block.  Quantities on   *)
(* the prediction scale are integers in units of 1/10000.                  *)
(***************************************************************************)
Shapes == { "rising", "falling" }

\* the fitted linear predictor X*beta at grid position t (0 .. GridSize-1),
\* in whole logits
Eta(shape, t) ==
    IF shape = "rising" THEN (t \div 25) - 2 ELSE 1 - (t \div 25)

\* the logistic function in units of 1/10000
Expit(e) ==
    CASE e = -2 -> 1192
      [] e = -1 -> 2689
      [] e = 0 -> 5000
      [] e = 1 -> 7311
      [] e = 2 -> 8808

\* the position on the exposure axis that row j of the grid stands for
GridPosition(x_pred, j) ==
    IF x_pred[2] = x_pred[1] THEN 0
    ELSE (x_pred[j] - x_pred[1]) \div (x_pred[2] - x_pred[1])

\* results.predict(X): for a GLM the mean response, the probability
Predict(results, X, x_pred, j) ==
    IF HasNaN(X) THEN NaN
    ELSE << Expit(Eta(results.shape, GridPosition(x_pred, j))) >>

\* sqrt(diag(X cov X')) at row j, in units of 1/100
PredSE(results, X, x_pred, j) ==
    LET t == GridPosition(x_pred, j)
    IN  IF HasNaN(X) THEN NaN
        ELSE << 10 + (IF t < 50 THEN 50 - t ELSE t - 50) \div 10 >>

FSub(a, b) == IF a = NaN \/ b = NaN THEN NaN ELSE << a[1] - b[1] >>
FAdd(a, b) == IF a = NaN \/ b = NaN THEN NaN ELSE << a[1] + b[1] >>
\* 1.96 * se, from units of 1/100 to units of 1/10000
Times196(se) == IF se = NaN THEN NaN ELSE << 196 * se[1] >>

\* np.exp(d): the term e^d; exp is strictly increasing and exp(0) is 1
Exp(d) == IF d = NaN THEN NaN ELSE << [e_to |-> d[1]] >>

\* RefIndex one position early
RefIndexOneEarly(x_pred) == Len(x_pred) \div 2

\* ref_idx = len(x_pred) // 2, as a position from 1
RefIndex(x_pred) == (Len(x_pred) \div 2) + 1

\* the four arrays calculate_rcs_predictions returns from its try block
PredictionCurve(results, loc) ==
    LET X == loc.X_pred_with_const
        x_pred == loc.x_pred
        pred_logit == [j \in DOMAIN x_pred |-> Predict(results, X, x_pred, j)]
        pred_se == [j \in DOMAIN x_pred |-> PredSE(results, X, x_pred, j)]
        ci_lower_logit == [j \in DOMAIN x_pred |->
                              FSub(pred_logit[j], Times196(pred_se[j]))]
        ci_upper_logit == [j \in DOMAIN x_pred |->
                              FAdd(pred_logit[j], Times196(pred_se[j]))]
        ref_logit == pred_logit[RefIndex(x_pred)]
    IN  [x_pred |-> x_pred,
         or_pred |-> [j \in DOMAIN x_pred |-> Exp(FSub(pred_logit[j], ref_logit))],
         or_ci_lower |-> [j \in DOMAIN x_pred |->
                             Exp(FSub(ci_lower_logit[j], ref_logit))],
         or_ci_upper |-> [j \in DOMAIN x_pred |->
                             Exp(FSub(ci_upper_logit[j], ref_logit))]]

(***************************************************************************)
(* multipletests(pvals, method='fdr_bh').  p-values are integers in units  *)
(* of 1/PScale; an adjusted value is the fraction num/den.                 *)
(***************************************************************************)
RECURSIVE Factorial(_)
Factorial(m) == IF m <= 1 THEN 1 ELSE m * Factorial(m - 1)

MinOf(S) == CHOOSE v \in S : \A u \in S : v <= u

\* fdr_bh that multiplies by the ecdf factor k/m where it should divide
fdr_bh_times_ecdf(pvals) ==
    LET m == Len(pvals)
        den == PScale * Factorial(m)
        pvals_sorted == SortSeq(pvals, LessThan)
        corrected_raw == [k \in 1..m |->
                             pvals_sorted[k] * k * (Factorial(m) \div m)]
        accumulated == [k \in 1..m |-> MinOf({ corrected_raw[l] : l \in k..m })]
        clipped == [k \in 1..m |->
                       IF accumulated[k] > den THEN den ELSE accumulated[k]]
        place(i) == Cardinality({ j \in 1..m : pvals[j] < pvals[i] })
                        + Cardinality({ j \in 1..i : pvals[j] = pvals[i] })
    IN  [i \in 1..m |-> [num |-> clipped[place(i)], den |-> den]]

fdr_bh(pvals) ==
    LET m == Len(pvals)
        den == PScale * Factorial(m)
        pvals_sorted == SortSeq(pvals, LessThan)
        \* pvals_sorted / ecdffactor, ecdffactor[k] = k/m
        corrected_raw == [k \in 1..m |->
                             pvals_sorted[k] * m * (Factorial(m) \div k)]
        \* np.minimum.accumulate from the right
        accumulated == [k \in 1..m |-> MinOf({ corrected_raw[l] : l \in k..m })]
        clipped == [k \in 1..m |->
                       IF accumulated[k] > den THEN den ELSE accumulated[k]]
        \* the place of entry i in the stable sort
        place(i) == Cardinality({ j \in 1..m : pvals[j] < pvals[i] })
                        + Cardinality({ j \in 1..i : pvals[j] = pvals[i] })
    IN  [i \in 1..m |-> [num |-> clipped[place(i)], den |-> den]]

(***************************************************************************)
(* The aggregation block: the two FDR columns of results_df.               *)
(***************************************************************************)
PColumn(rows, name) ==
    [i \in DOMAIN rows |->
        IF name = "P_Overall" THEN rows[i].P_Overall ELSE rows[i].P_Nonlinearity]

notna(col) == [i \in DOMAIN col |-> col[i] # NaN]

\* col.dropna(), the values unwrapped
dropna(col) ==
    LET kept == Compress(col, notna(col))
    IN  [i \in DOMAIN kept |-> kept[i][1]]

\* results_df.loc[col.notna(), new] = adjusted: the k-th adjusted value goes
\* to the k-th row whose raw value is not missing; the other rows get NaN
Scatter(col, adjusted) ==
    [i \in DOMAIN col |->
        IF col[i] = NaN THEN NaN
        ELSE << adjusted[Cardinality({ j \in 1..i : col[j] # NaN })] >>]

\* the FDR column made from one family of raw p-values: << >> when the
\* column is not created, else the one-element sequence holding the column
FDRColumn(col) ==
    IF Len(dropna(col)) > 0 THEN << Scatter(col, fdr_bh(dropna(col))) >>
    ELSE << >>

\* CorrectedFrame with the two families corrected as one pooled family
CorrectedFramePooled(rows) ==
    LET overall == PColumn(rows, "P_Overall")
        nonlinear == PColumn(rows, "P_Nonlinearity")
        n_overall == Len(dropna(overall))
        pooled == fdr_bh(dropna(overall) \o dropna(nonlinear))
    IN  [rows |-> rows,
         P_Overall_FDR |->
             IF n_overall > 0
             THEN << Scatter(overall, SubSeq(pooled, 1, n_overall)) >>
             ELSE << >>,
         P_Nonlinearity_FDR |->
             IF Len(pooled) > n_overall
             THEN << Scatter(nonlinear,
                             SubSeq(pooled, n_overall + 1, Len(pooled))) >>
             ELSE << >>]

\* results_df after the correction
CorrectedFrame(rows) ==
    [rows |-> rows,
     P_Overall_FDR |-> FDRColumn(PColumn(rows, "P_Overall")),
     P_Nonlinearity_FDR |-> FDRColumn(PColumn(rows, "P_Nonlinearity"))]

\* results_df[display_cols] raises KeyError when P_Overall_FDR is a column
\* and P_Nonlinearity_FDR is not
DisplayRaises(df) == df.P_Overall_FDR # << >> /\ df.P_Nonlinearity_FDR = << >>

\* ExitStatusAtEnd that treats an empty batch as fatal
ExitStatusFatalWhenEmpty(results) == IF results = << >> THEN 1 ELSE 0

\* the exit status of a run that reaches the end of the script
ExitStatusAtEnd(results) == 0

(***************************************************************************)
(* The script as a state machine.                                          *)
(***************************************************************************)
VARIABLES
    data,         \* the table read from clean_data.csv, as blocks
    pc,           \* where the script is
    oi,           \* index of outcome_type in the outer loop
    ei,           \* index of exp_var in the inner loop
    fit,          \* locals of fit_weighted_rcs_model at its try block
    ret,          \* results, X_spline, knots, mask, covariate_info in main
    pvals,        \* p_overall, p_nonlinear in main
    pred,         \* locals of calculate_rcs_predictions at its try block
    curve,        \* x_pred, odds_ratio, ci_lower, ci_upper in main
    all_results,  \* the list all_results
    results_df,   \* the frame results_df
    files,        \* the files written so far
    exit_code     \* the exit status, once the process has ended

vars == << data, pc, oi, ei, fit, ret, pvals, pred, curve, all_results,
           results_df, files, exit_code >>

None == << >>

PValues == { 2, 6 }

outcome_type == Outcomes[oi]
exp_var == exposure_vars[ei]

IsCohort(b) == b.row.dataset = << outcome_type >>

\* data[data['dataset'] == outcome_type]
analysis_blocks == SelectSeq(data, IsCohort)
analysis_data == Expand(analysis_blocks)

\* [cov for cov in covariates if cov in analysis_data.columns]
available_covariates == Listed(covariates, Columns(analysis_data))

\* len(analysis_data.dropna(subset=[exp_var, 'outcome_binary', 'WTSAF6YR']))
ValidCount ==
    CountTrue(RowMask(analysis_data, exp_var, "outcome_binary", << >>, "WTSAF6YR"))

\* analysis_data[exp_var].values[mask]
x_data == InUnits(Clean(analysis_data, exp_var, ret[1].mask))

\* where the script goes when the iteration of exposure e of outcome o ends
AfterOutcome(o) ==
    IF o < Len(Outcomes) THEN [pc |-> "outer", oi |-> o + 1, ei |-> 1]
    ELSE [pc |-> "aggregate", oi |-> o, ei |-> 1]

\* AfterExposure that leaves the loops after the last exposure of any cohort
AfterExposureLeavesEarly(o, e) ==
    IF e < Len(exposure_vars) THEN [pc |-> "inner", oi |-> o, ei |-> e + 1]
    ELSE [pc |-> "aggregate", oi |-> o, ei |-> 1]

AfterExposure(o, e) ==
    IF e < Len(exposure_vars) THEN [pc |-> "inner", oi |-> o, ei |-> e + 1]
    ELSE AfterOutcome(o)

Goto(next) == pc' = next.pc /\ oi' = next.oi /\ ei' = next.ei

ClearLocals ==
    /\ fit' = None /\ ret' = None /\ pvals' = None
    /\ pred' = None /\ curve' = None

Init ==
    /\ \E mho \in CohortShapes, muo \in CohortShapes : data = MakeTable(mho, muo)
    /\ pc = "outer"
    /\ oi = 1
    /\ ei = 1
    /\ fit = None
    /\ ret = None
    /\ pvals = None
    /\ pred = None
    /\ curve = None
    /\ all_results = << >>
    /\ results_df = None
    /\ files = { }
    /\ exit_code = None

\* for outcome_type in ["MHO", "MUO"]: the cohort filter and its size check
BeginOutcome ==
    /\ pc = "outer"
    /\ IF TotalRows(analysis_blocks) < MinCohortRows
       THEN Goto(AfterOutcome(oi))
       ELSE Goto([pc |-> "inner", oi |-> oi, ei |-> 1])
    /\ UNCHANGED << data, fit, ret, pvals, pred, curve, all_results,
                    results_df, files, exit_code >>

\* for exp_var in exposure_vars: the column check and the valid-row check
BeginExposure ==
    /\ pc = "inner"
    /\ IF exp_var \notin Columns(analysis_data) \/ ValidCount < MinValidRows
       THEN Goto(AfterExposure(oi, ei))
       ELSE Goto([pc |-> "fit", oi |-> oi, ei |-> ei])
    /\ UNCHANGED << data, fit, ret, pvals, pred, curve, all_results,
                    results_df, files, exit_code >>

\* fit_weighted_rcs_model up to its try block; with too few complete rows it
\* returns the five Nones and the main loop continues with the next exposure
FitPrepare ==
    /\ pc = "fit"
    /\ IF TooFewRows(analysis_data, exp_var, "outcome_binary",
                     available_covariates, "WTSAF6YR")
       THEN Goto(AfterExposure(oi, ei)) /\ fit' = None
       ELSE /\ Goto([pc |-> "glm", oi |-> oi, ei |-> ei])
            /\ fit' = << FitLocals(analysis_data, exp_var, "outcome_binary",
                                   available_covariates, "WTSAF6YR") >>
    /\ UNCHANGED << data, ret, pvals, pred, curve, all_results,
                    results_df, files, exit_code >>

\* the try block of fit_weighted_rcs_model and the check of its result in the
\* main loop; raises is whether statsmodels raises during the fit
FitGLM ==
    /\ pc = "glm"
    /\ \E raises \in BOOLEAN, shape \in Shapes :
          LET call == GLMCall(fit[1].y_clean, fit[1].X_with_const,
                              Normalized(fit[1].w_clean))
          IN  IF GLMRaises(call) \/ raises
              THEN Goto(AfterExposure(oi, ei)) /\ ret' = None
              ELSE /\ Goto([pc |-> "p_values", oi |-> oi, ei |-> ei])
                   /\ ret' = << [results |-> FitResults(call, shape),
                                 X_spline |-> fit[1].X_spline,
                                 knots |-> fit[1].knots,
                                 mask |-> fit[1].mask,
                                 covariate_info |-> fit[1].covariate_info] >>
    /\ fit' = None
    /\ UNCHANGED << data, pvals, pred, curve, all_results,
                    results_df, files, exit_code >>

\* calculate_p_values(results, n_spline_terms=3)
CalcPValues ==
    /\ pc = "p_values"
    /\ \E wald_overall \in { << >> } \cup { << p >> : p \in PValues },
          wald_nonlinear \in { << >> } \cup { << p >> : p \in PValues } :
          pvals' = << calculate_p_values(ret[1].results, MainSplineTerms,
                                         wald_overall, wald_nonlinear) >>
    /\ Goto([pc |-> "predict", oi |-> oi, ei |-> ei])
    /\ UNCHANGED << data, fit, ret, pred, curve, all_results,
                    results_df, files, exit_code >>

\* x_range and calculate_rcs_predictions up to its try block
PredictDesign ==
    /\ pc = "predict"
    /\ pred' = << PredictionLocals(ret[1].results,
                                   << Percentile(x_data, 50),
                                      Percentile(x_data, 950) >>,
                                   ret[1].knots) >>
    /\ Goto([pc |-> "predict_try", oi |-> oi, ei |-> ei])
    /\ UNCHANGED << data, fit, ret, pvals, curve, all_results,
                    results_df, files, exit_code >>

\* the try block of calculate_rcs_predictions; raises is whether the
\* prediction raises, and then the four Nones are returned
PredictCurve ==
    /\ pc = "predict_try"
    /\ \E raises \in BOOLEAN :
          curve' = IF raises THEN << None >>
                   ELSE << << PredictionCurve(ret[1].results, pred[1]) >> >>
    /\ pred' = None
    /\ Goto([pc |-> "plot", oi |-> oi, ei |-> ei])
    /\ UNCHANGED << data, fit, ret, pvals, all_results,
                    results_df, files, exit_code >>

\* create_rcs_plot, savefig and all_results.append; create_rcs_plot raises
\* on the Nones of a failed prediction and nothing catches it
PlotAndStore ==
    /\ pc = "plot"
    /\ IF curve[1] = None
       THEN /\ pc' = "crashed"
            /\ exit_code' = << 1 >>
            /\ UNCHANGED << oi, ei, all_results, files >>
       ELSE /\ Goto(AfterExposure(oi, ei))
            /\ files' = files \cup { << "RCS", outcome_type, exp_var, "png" >> }
            /\ all_results' = Append(all_results,
                                  [Outcome |-> outcome_type,
                                   Exposure |-> exp_var,
                                   P_Overall |-> pvals[1][1],
                                   P_Nonlinearity |-> pvals[1][2],
                                   N_Subjects |-> Len(x_data)])
            /\ UNCHANGED exit_code
    /\ ClearLocals
    /\ UNCHANGED << data, results_df >>

\* the aggregation block: FDR correction, rcs_results.csv, the summary table
Aggregate ==
    /\ pc = "aggregate"
    /\ IF Len(all_results) > 0
       THEN /\ results_df' = << CorrectedFrame(all_results) >>
            /\ files' = files \cup { << "rcs_results.csv" >> }
            /\ IF DisplayRaises(CorrectedFrame(all_results))
               THEN pc' = "crashed" /\ exit_code' = << 1 >>
               ELSE pc' = "finish" /\ UNCHANGED exit_code
       ELSE /\ pc' = "finish"
            /\ UNCHANGED << results_df, files, exit_code >>
    /\ UNCHANGED << data, oi, ei, fit, ret, pvals, pred, curve, all_results >>

\* the closing messages; the script ends
Finish ==
    /\ pc = "finish"
    /\ pc' = "done"
    /\ exit_code' = << ExitStatusAtEnd(all_results) >>
    /\ UNCHANGED << data, oi, ei, fit, ret, pvals, pred, curve, all_results,
                    results_df, files >>

Next ==
    \/ BeginOutcome
    \/ BeginExposure
    \/ FitPrepare
    \/ FitGLM
    \/ CalcPValues
    \/ PredictDesign
    \/ PredictCurve
    \/ PlotAndStore
    \/ Aggregate
    \/ Finish

Spec == Init /\ [][Next]_vars

(***************************************************************************)
(* Definitions the claims are stated with.                                 *)
(***************************************************************************)
InPair == pc \in { "glm", "p_values", "predict", "predict_try", "plot" }

\* the blocks of cohort o
BlocksOf(o) == SelectSeq(data, LAMBDA b : b.row.dataset = << Outcomes[o] >>)

\* row r has a value in the exposure, the outcome, the weight and in every
\* covariate of the list that is a column of the table
IsCompleteRow(r, e) ==
    /\ Cell(r, exposure_vars[e]) # NA
    /\ r.outcome_binary # NA
    /\ r.WTSAF6YR # NA
    /\ \A c \in SeqToSet(covariates) \cap Columns(<< r >>) : Cell(r, c) # NA

\* row r has a value in the exposure, the outcome and the weight
IsValidRow(r, e) ==
    /\ Cell(r, exposure_vars[e]) # NA
    /\ r.outcome_binary # NA
    /\ r.WTSAF6YR # NA

CompleteCount(o, e) ==
    TotalRows(SelectSeq(BlocksOf(o), LAMBDA b : IsCompleteRow(b.row, e)))

ValidRowCount(o, e) ==
    TotalRows(SelectSeq(BlocksOf(o), LAMBDA b : IsValidRow(b.row, e)))

PairIndex(outcome, exposure) ==
    << CHOOSE o \in DOMAIN Outcomes : Outcomes[o] = outcome,
       CHOOSE e \in DOMAIN exposure_vars : exposure_vars[e] = exposure >>

\* C1: a pair whose prediction failed (no curve) is skipped: the loop goes on
\* to the next pair and no record is added for the failed one.
C1_FailedPredictionIsSkipped ==
    [][(pc = "plot" /\ curve[1] = None)
          => (pc' \in { "inner", "outer", "aggregate" }
                 /\ all_results' = all_results)]_vars

\* C2: the spline basis of the prediction grid is built with the knots the fit
\* computed from the filtered exposure data.
C2_GridBasisUsesFitKnots ==
    pc = "predict_try" => pred[1].spline_knots = ret[1].knots

\* C3: the fit is given the survey weights of the complete rows (as they are,
\* or normalized to mean one).
C3_FitUsesSurveyWeights ==
    ret # None =>
        LET w_clean == Clean(analysis_data, "WTSAF6YR", ret[1].mask)
        IN  ret[1].results.weights \in { << w_clean >>, << Normalized(w_clean) >> }

\* the Benjamini-Hochberg adjusted value of p within the family ps (all of
\* them non-missing), as a numerator over PScale * Factorial(Len(ps)):
\* the least v * m / #{q <= v} over the family's values v >= p, at most 1
BHNumerator(ps, p) ==
    LET m == Len(ps)
        atMost(v) == Cardinality({ j \in 1..m : ps[j] <= v })
        cands == { ps[j] * m * (Factorial(m) \div atMost(ps[j])) :
                      j \in { k \in 1..m : ps[k] >= p } }
    IN  MinOf(cands \cup { PScale * Factorial(m) })

\* what the claim asks of one FDR column, given the family's raw column
FDRColumnRight(raw, fdr) ==
    LET family == dropna(raw)
    IN  IF fdr = << >> THEN \A i \in DOMAIN raw : raw[i] = NaN
        ELSE /\ DOMAIN fdr[1] = DOMAIN raw
             /\ \A i \in DOMAIN raw :
                   IF raw[i] = NaN THEN fdr[1][i] = NaN
                   ELSE /\ fdr[1][i] # NaN
                        /\ fdr[1][i][1].num * (PScale * Factorial(Len(family)))
                              = BHNumerator(family, raw[i][1]) * fdr[1][i][1].den

C5_IncompleteRowsDroppedAndFewRowsFail ==
    /\ fit # None =>
          LET rows == analysis_data
          IN  /\ DOMAIN fit[1].mask = DOMAIN rows
              /\ \A i \in DOMAIN rows :
                    fit[1].mask[i] <=> IsCompleteRow(rows[i], ei)
              /\ Len(fit[1].x_clean) = CompleteCount(oi, ei)
    /\ InPair => CompleteCount(oi, ei) >= MinCompleteRows
    /\ (~InPair) => (fit = None /\ ret = None)
    /\ \A r \in DOMAIN all_results :
          LET pair == PairIndex(all_results[r].Outcome, all_results[r].Exposure)
          IN  /\ CompleteCount(pair[1], pair[2]) >= MinCompleteRows
              /\ all_results[r].N_Subjects = CompleteCount(pair[1], pair[2])

\* C5 witness: the main loop has just left a pair that had enough valid rows to
\* reach the fit and fewer than 50 complete rows
C5_Witness ==
    /\ pc = "inner"
    /\ ei = 2
    /\ ValidRowCount(oi, 1) >= MinValidRows
    /\ CompleteCount(oi, 1) < MinCompleteRows
    /\ CompleteCount(oi, 1) > 0
    /\ fit = None
    /\ ret = None

\* C6: in every returned curve the reference is grid index 50 of 100 (counted
\* from 0), the odds ratio there is exactly 1 and the bounds there bracket 1.
C6_ReferenceIsOne ==
    (pc = "plot" /\ curve[1] # None) =>
        LET c == curve[1][1]
            ref == (GridSize \div 2) + 1
        IN  /\ Len(c.x_pred) = GridSize
            /\ c.or_pred[ref] = << [e_to |-> 0] >>
            /\ c.or_ci_lower[ref] # NaN
            /\ c.or_ci_upper[ref] # NaN
            /\ c.or_ci_lower[ref][1].e_to <= 0
            /\ c.or_ci_upper[ref][1].e_to >= 0

\* C6 witness: a returned curve whose odds ratio is not 1 next to the reference
C6_Witness ==
    /\ pc = "plot"
    /\ curve[1] # None
    /\ curve[1][1].or_pred[GridSize \div 2] # << [e_to |-> 0] >>
    /\ curve[1][1].or_pred[GridSize \div 2] # NaN

\* C7: when the last two knots are equal, the spline construction hands no
\* basis to the fit.
C7_DegenerateKnotsGiveNoBasis ==
    fit # None =>
        fit[1].knots[DefaultKnots] # fit[1].knots[DefaultKnots - 1]

\* C8: for every categorical covariate, the level without a dummy column is
\* the most frequent level of the complete rows and is the recorded reference.
C8_DroppedLevelIsRecordedMode ==
    fit # None =>
        \A c \in DOMAIN fit[1].covariate_info :
            LET info == fit[1].covariate_info[c]
                vals == Clean(analysis_data, info.name, fit[1].mask)
                present == { vals[i] : i \in DOMAIN vals }
                dropped == present \ SeqToSet(info.categories)
            IN  info.type = "categorical" =>
                   /\ dropped = { info.reference[1] }
                   /\ \A l \in present :
                         CountOf(vals, l) <= CountOf(vals, info.reference[1])

\* C9 as stated: a run whose batch is empty ends with a non-zero exit status.
C9_EmptyBatchIsFatal ==
    (pc = "done" /\ all_results = << >>) => exit_code # << 0 >>

\* C9 as amended: a run whose batch is empty skips the correction, writes no
\* result table and ends normally, with exit status 0.
C9_EmptyBatchEndsNormally ==
    /\ (pc = "done" /\ all_results = << >>) =>
          /\ exit_code = << 0 >>
          /\ results_df = None
          /\ << "rcs_results.csv" >> \notin files
    /\ (pc = "finish" /\ all_results = << >>) =>
          /\ exit_code = None
          /\ results_df = None
          /\ << "rcs_results.csv" >> \notin files

\* C9 witness: the script has ended with an empty batch
C9_Witness == pc = "done" /\ all_results = << >>

\* C10: after a run with result records, the prediction table that the
\* plotting script reads (rcs_predictions.csv) has been written.
C10_PredictionsPersisted ==
    (pc = "done" /\ all_results # << >>) => << "rcs_predictions.csv" >> \in files


\* the positions of the records of pair (o, e) in all_results
RecordsOf(o, e) ==
    { r \in DOMAIN all_results :
         /\ all_results[r].Outcome = Outcomes[o]
         /\ all_results[r].Exposure = exposure_vars[e] }

\* pair (o, e) cannot reach the fit: the exposure is not a column of the
\* table, or fewer than 50 rows of the cohort are complete
CannotFit(o, e) ==
    IF exposure_vars[e] \notin Columns(data) THEN TRUE
    ELSE CompleteCount(o, e) < MinCompleteRows

IsPOrMissing(p) == p = NaN \/ (Len(p) = 1 /\ p[1] \in PValues)

\* the place of pair (o, e) in the order of the two loops
LoopOrder(o, e) == (o - 1) * Len(exposure_vars) + e

\* C11 as stated: the FDR-correction step starts only after every iteration
\* has completed, and then every pair of the batch has its p-values or a
\* missing marker in the shared collection.
C11_EveryPairContributed ==
    pc = "aggregate" =>
        /\ oi = Len(Outcomes)
        /\ \A o \in DOMAIN Outcomes, e \in DOMAIN exposure_vars :
              RecordsOf(o, e) # { }

\* C11 amended: the FDR-correction step starts only after the two loops have
\* ended (no iteration is in progress, the last cohort was reached); every
\* iteration that ran to its end appended one record with its two p-values,
\* each a value or the missing marker; the collection then holds at most one
\* record per pair, in loop order, and a skipped pair has left nothing in it.
C11_CompletedPairsContributed ==
    /\ [](pc \in { "aggregate", "finish", "done" } =>
             /\ oi = Len(Outcomes)
             /\ fit = None /\ ret = None /\ pvals = None
             /\ pred = None /\ curve = None
             /\ \A o \in DOMAIN Outcomes, e \in DOMAIN exposure_vars :
                   /\ Cardinality(RecordsOf(o, e)) <= 1
                   /\ CannotFit(o, e) => RecordsOf(o, e) = { }
             /\ \A r \in DOMAIN all_results :
                   /\ IsPOrMissing(all_results[r].P_Overall)
                   /\ IsPOrMissing(all_results[r].P_Nonlinearity)
             /\ \A q, r \in DOMAIN all_results :
                   q < r =>
                      LET a == PairIndex(all_results[q].Outcome,
                                         all_results[q].Exposure)
                          b == PairIndex(all_results[r].Outcome,
                                         all_results[r].Exposure)
                      IN  LoopOrder(a[1], a[2]) < LoopOrder(b[1], b[2])
             /\ results_df # None => results_df[1].rows = all_results)
    /\ [][(pc = "plot" /\ pc' \notin { "plot", "crashed" })
             => /\ Len(all_results') = Len(all_results) + 1
                /\ SubSeq(all_results', 1, Len(all_results)) = all_results
                /\ all_results'[Len(all_results')].Outcome = outcome_type
                /\ all_results'[Len(all_results')].Exposure = exp_var
                /\ all_results'[Len(all_results')].P_Overall = pvals[1][1]
                /\ all_results'[Len(all_results')].P_Nonlinearity = pvals[1][2]]_vars

\* C11 witness: the correction is about to start on a batch in which a pair
\* was skipped and a record carries the missing marker
C11_Witness ==
    /\ pc = "aggregate"
    /\ \E o \in DOMAIN Outcomes, e \in DOMAIN exposure_vars :
          RecordsOf(o, e) = { }
    /\ \E r \in DOMAIN all_results : all_results[r].P_Overall = NaN
    /\ \E r \in DOMAIN all_results : all_results[r].P_Overall # NaN


(***************************************************************************)
(* calculate_p_values on its own: a results object with n_params           *)
(* coefficients, the constant first, then n_spline_terms spline terms,     *)
(* then at most MaxExtraParams covariate terms.                            *)
(***************************************************************************)
MaxSplineTerms == 4
MaxExtraParams == 2

\* what results.wald_test may answer: it raises, or a p-value
WaldAnswers == { << >> } \cup { << p >> : p \in 0..PScale }

InitPValues ==
    /\ pc = "p_values_call"
    /\ \E n \in 1..MaxSplineTerms, extra \in 0..MaxExtraParams :
          ret = << [results |-> [n_params |-> 1 + n + extra],
                    n_spline_terms |-> n] >>
    /\ pvals = None
    /\ data = << >> /\ oi = 1 /\ ei = 1 /\ fit = None /\ pred = None
    /\ curve = None /\ all_results = << >> /\ results_df = None
    /\ files = { } /\ exit_code = None

\* one call of calculate_p_values(results, n_spline_terms)
CallPValues ==
    /\ pc = "p_values_call"
    /\ \E wald_overall \in WaldAnswers, wald_nonlinear \in WaldAnswers :
          pvals' = << [wald_overall |-> wald_overall,
                       wald_nonlinear |-> wald_nonlinear,
                       matrices |-> WaldCalls(ret[1].results,
                                              ret[1].n_spline_terms),
                       returned |-> calculate_p_values(ret[1].results,
                                                       ret[1].n_spline_terms,
                                                       wald_overall,
                                                       wald_nonlinear)] >>
    /\ pc' = "p_values_returned"
    /\ UNCHANGED << data, oi, ei, fit, ret, pred, curve, all_results,
                    results_df, files, exit_code >>

NextPValues == CallPValues

SpecPValues == InitPValues /\ [][NextPValues]_vars

\* C12: with n spline terms the overall test gets one unit row per index
\* 1..n (index 0 left out) and the nonlinearity test one unit row per index
\* 2..n; with n = 1 there is no nonlinearity test and its p-value is missing,
\* not zero; when either test raises, the call still returns, with missing
\* values; otherwise it returns the two tests' p-values.
C12_WaldContrastsAndMissing ==
    pc = "p_values_returned" =>
        LET n == ret[1].n_spline_terms
            m == pvals[1].matrices
            out == pvals[1].returned
        IN  /\ Len(m[1]) = n
            /\ \A i \in 1..n : m[1][i] = { i }
            /\ IF n = 1
               THEN /\ Len(m) = 1
                    /\ out[2] = NaN
                    /\ out[2] # << 0 >>
                    /\ out[1] = pvals[1].wald_overall
               ELSE /\ Len(m) = 2
                    /\ Len(m[2]) = n - 1
                    /\ \A i \in 1..(n - 1) : m[2][i] = { i + 1 }
                    /\ IF pvals[1].wald_overall = << >>
                          \/ pvals[1].wald_nonlinear = << >>
                       THEN out = << NaN, NaN >>
                       ELSE out = << pvals[1].wald_overall,
                                     pvals[1].wald_nonlinear >>
            /\ Len(out) = 2

\* C12 witness: a call with more than one spline term whose nonlinearity test
\* raised after the overall test had answered
C12_Witness ==
    /\ pc = "p_values_returned"
    /\ ret[1].n_spline_terms > 1
    /\ pvals[1].wald_overall # << >>
    /\ pvals[1].wald_nonlinear = << >>
    /\ pvals[1].returned = << NaN, NaN >>


(***************************************************************************)
(* create_spline_terms on its own: K in {3, 4, 5} and a vector of distinct *)
(* values.                                                                 *)
(***************************************************************************)
MaxVectorLen == 4
MaxValue == 4

KnotCounts == { 3, 4, 5 }

IsDistinct(x) == \A i, j \in DOMAIN x : i # j => x[i] # x[j]

\* the vectors of 1..MaxVectorLen distinct values out of 0..MaxValue
DistinctVectors ==
    UNION { { x \in [1..n -> 0..MaxValue] : IsDistinct(x) } :
               n \in 1..MaxVectorLen }

InitSpline ==
    /\ pc = "spline_call"
    /\ \E x \in DistinctVectors, K \in KnotCounts :
          ret = << [x |-> InUnits(x), n_knots |-> K] >>
    /\ pred = None
    /\ data = << >> /\ oi = 1 /\ ei = 1 /\ fit = None /\ pvals = None
    /\ curve = None /\ all_results = << >> /\ results_df = None
    /\ files = { } /\ exit_code = None

\* one call of create_spline_terms(x, n_knots)
CallSpline ==
    /\ pc = "spline_call"
    /\ pred' = << create_spline_terms(ret[1].x, ret[1].n_knots) >>
    /\ pc' = "spline_returned"
    /\ UNCHANGED << data, oi, ei, fit, ret, pvals, curve, all_results,
                    results_df, files, exit_code >>

NextSpline == CallSpline

SpecSpline == InitSpline /\ [][NextSpline]_vars

\* C13: for K in {3, 4, 5} and x of distinct values, create_spline_terms
\* returns K knots and a basis of K-1 columns with as many rows as x, and
\* column 0 of the basis is x unchanged.
C13_BasisShape ==
    pc = "spline_returned" =>
        LET x == ret[1].x
            K == ret[1].n_knots
            X == pred[1].X
        IN  /\ Len(pred[1].knots) = K
            /\ Len(X) = K - 1
            /\ \A c \in DOMAIN X : NumRows(X[c]) = Len(x)
            /\ X[1].vals = x
            /\ ~X[1].nan

\* C13 witness: a call with five knots on an unsorted vector of distinct values
C13_Witness ==
    /\ pc = "spline_returned"
    /\ ret[1].n_knots = 5
    /\ Len(ret[1].x) = MaxVectorLen
    /\ ret[1].x[1] > ret[1].x[2]
    /\ Len(pred[1].X) = 4


(***************************************************************************)
(* The aggregation block on its own: the script has left the loops with a  *)
(* batch of records, the first k pairs in loop order, each with both       *)
(* p-values missing or both present.                                       *)
(***************************************************************************)
MaxBatch == 3

\* the p-values a record may carry, in units of 1/PScale
BatchPValues == { 0, 1, PScale \div 2, PScale }

\* the q-th pair in the order of the loops, over the exposures with data
LoopPair(q) ==
    << Outcomes[((q - 1) \div NumExposureCols) + 1],
       exposure_vars[((q - 1) % NumExposureCols) + 1] >>

PValuePairs ==
    { << NaN, NaN >> } \cup
    { << << p >>, << q >> >> : p \in BatchPValues, q \in BatchPValues }

\* the batch whose q-th record carries the p-values ps[q]
Batch(ps) ==
    [q \in DOMAIN ps |-> [Outcome |-> LoopPair(q)[1],
                          Exposure |-> LoopPair(q)[2],
                          P_Overall |-> ps[q][1],
                          P_Nonlinearity |-> ps[q][2],
                          N_Subjects |-> MinCompleteRows]]

InitFDR ==
    /\ pc = "aggregate"
    /\ \E k \in 1..MaxBatch : \E ps \in [1..k -> PValuePairs] :
          all_results = Batch(ps)
    /\ data = << >> /\ oi = Len(Outcomes) /\ ei = 1
    /\ fit = None /\ ret = None /\ pvals = None /\ pred = None
    /\ curve = None /\ results_df = None /\ files = { } /\ exit_code = None

NextFDR == Aggregate \/ Finish

SpecFDR == InitFDR /\ [][NextFDR]_vars

\* every non-missing entry of the raw column has an adjusted value num/den
\* with num/den >= raw/PScale
AdjustedAtLeastRaw(raw, fdr) ==
    \A i \in DOMAIN raw :
        raw[i] # NaN =>
            /\ fdr # << >>
            /\ fdr[1][i] # NaN
            /\ fdr[1][i][1].num * PScale >= raw[i][1] * fdr[1][i][1].den

\* C14: for every row whose raw p-value is not missing, the FDR-adjusted
\* p-value is at least the raw p-value, in the overall and in the
\* nonlinearity family.
C14_AdjustedNotBelowRaw ==
    results_df # None =>
        /\ AdjustedAtLeastRaw(PColumn(all_results, "P_Overall"),
                              results_df[1].P_Overall_FDR)
        /\ AdjustedAtLeastRaw(PColumn(all_results, "P_Nonlinearity"),
                              results_df[1].P_Nonlinearity_FDR)

\* C14 witness: a corrected batch with a missing row, a row whose adjusted
\* overall value is above its raw value and a row where the two are equal
C14_Witness ==
    /\ results_df # None
    /\ \E i \in DOMAIN all_results : all_results[i].P_Overall = NaN
    /\ \E i \in DOMAIN all_results :
          /\ all_results[i].P_Overall # NaN
          /\ results_df[1].P_Overall_FDR[1][i][1].num * PScale
                > all_results[i].P_Overall[1]
                     * results_df[1].P_Overall_FDR[1][i][1].den
    /\ \E i \in DOMAIN all_results :
          /\ all_results[i].P_Overall # NaN
          /\ all_results[i].P_Overall[1] > 0
          /\ results_df[1].P_Overall_FDR[1][i][1].num * PScale
                = all_results[i].P_Overall[1]
                     * results_df[1].P_Overall_FDR[1][i][1].den


\* the fitted linear predictor X*beta at row j of the grid, in units of 1/10000
LinearPredictor(results, x_pred, j) ==
    10000 * Eta(results.shape, GridPosition(x_pred, j))

\* C15: the quantity differenced against the reference and exponentiated,
\* and around which the +/-1.96*SE interval is built, is the linear predictor
\* (logit scale) at each grid point, not the predicted probability.
C15_CurveOnLogitScale ==
    (pc = "plot" /\ curve[1] # None) =>
        LET c == curve[1][1]
            r == ret[1].results
            ref == RefIndex(c.x_pred)
            eta(j) == LinearPredictor(r, c.x_pred, j)
            se(j) == PredSE(r, << >>, c.x_pred, j)[1]
        IN  \A j \in DOMAIN c.x_pred :
                c.or_pred[j] # NaN =>
                    /\ c.or_pred[j][1].e_to = eta(j) - eta(ref)
                    /\ c.or_ci_lower[j][1].e_to
                           = eta(j) - 196 * se(j) - eta(ref)
                    /\ c.or_ci_upper[j][1].e_to
                           = eta(j) + 196 * se(j) - eta(ref)


(***************************************************************************)
(* calculate_rcs_predictions up to its try block, on its own: a results    *)
(* object with 1..MaxParams coefficients and a grid range lo <= hi.        *)
(***************************************************************************)
MaxParams == 6

InitDesign ==
    /\ pc = "design_call"
    /\ \E n \in 1..MaxParams, lo \in 0..MaxValue, hi \in 0..MaxValue :
          /\ lo <= hi
          /\ ret = << [results |-> [n_params |-> n],
                       x_range |-> InUnits(<< lo, hi >>)] >>
    /\ pred = None
    /\ data = << >> /\ oi = 1 /\ ei = 1 /\ fit = None /\ pvals = None
    /\ curve = None /\ all_results = << >> /\ results_df = None
    /\ files = { } /\ exit_code = None

\* the grid, its basis and the design matrix handed to results.predict
BuildDesign ==
    /\ pc = "design_call"
    /\ pred' = << PredictionLocals(ret[1].results, ret[1].x_range, << >>) >>
    /\ pc' = "design_built"
    /\ UNCHANGED << data, oi, ei, fit, ret, pvals, curve, all_results,
                    results_df, files, exit_code >>

NextDesign == BuildDesign

SpecDesign == InitDesign /\ [][NextDesign]_vars

IsInterceptColumn(col) ==
    /\ ~col.nan
    /\ Len(col.vals) = GridSize
    /\ \A i \in DOMAIN col.vals : col.vals[i] = Unit

IsZeroColumn(col) ==
    /\ ~col.nan
    /\ Len(col.vals) = GridSize
    /\ \A i \in DOMAIN col.vals : col.vals[i] = 0

\* C16: for every parameter count and every grid, a constant one included,
\* the design matrix handed to the model has as many columns as the model has
\* parameters, laid out as intercept, spline columns, zero columns.
C16_DesignLayout ==
    pc = "design_built" =>
        LET X == pred[1].X_pred_with_const
            sp == pred[1].X_pred_spline
        IN  /\ Len(X) = ret[1].results.n_params
            /\ IsInterceptColumn(X[1])
            /\ \A c \in 2..Len(X) :
                  IF c - 1 <= Len(sp) THEN X[c] = sp[c - 1]
                  ELSE IsZeroColumn(X[c])

=============================================================================
